---- MODULE Spec2Model ----
(***************************************************************************)
(* A model of ptp2/camera.py: the PTP transaction engine (_CameraBase),    *)
(* the PTP session layer (PTPCamera) and the CHDK extension layer          *)
(* (CHDKCamera), run against a device that answers on the bulk-in and      *)
(* interrupt endpoints.                                                    *)
(*                                                                         *)
(* A byte buffer is modelled by the header fields its first bytes decode   *)
(* to (len, kind, code, tid, params), an identifier of its payload (data)  *)
(* and the number of bytes it holds (n).  An endpoint is a queue of such   *)
(* buffers ("chunks"): one read returns at most one chunk, and at most the *)
(* number of bytes asked for.                                              *)
(***************************************************************************)
EXTENDS Integers, Sequences, FiniteSets, TLC

VARIABLES
    transaction_id,   \* self._transaction_id
    bulk_in,          \* chunks the device has queued on the bulk-in endpoint
    intr_in,          \* chunks the device has queued on the interrupt endpoint
    cmd_ids,          \* history: transaction ids of the Command containers sent
    io,               \* the endpoint operations of the last call, in order
    call,             \* the last call: its name and arguments
    ret,              \* the last call's outcome: exception, message, value
    wait              \* the locals of _wait_for_script_return while it runs

vars == <<transaction_id, bulk_in, intr_in, cmd_ids, io, call, ret, wait>>

----------------------------------------------------------------------------
(* Bounds of the model *)

\* calls stop once this many transaction ids have been handed out
MaxTid == 3
\* the device queues at most this many chunks on bulk-in
MaxQueue == 3
\* the device queues at most this many chunks on the interrupt endpoint
MaxIntr == 2
\* the script-wait loop is followed for this many polls of the script status
MaxPolls == 4

----------------------------------------------------------------------------
(* Code tables imported by camera.py (typedefs, ptp_values, chdk_ptp_values) *)

PTP_CONTAINER_TYPE == [COMMAND |-> 1, DATA |-> 2, RESPONSE |-> 3, EVENT |-> 4]

PTP_OPCODE == [OPEN_SESSION |-> 4098, CLOSE_SESSION |-> 4099,
               GET_OBJECT |-> 4105, INITIATE_CAPTURE |-> 4110]

PTP_RESPONSE_CODE == [OK |-> 8193, GENERAL_ERROR |-> 8194,
                      SESSION_ALREADY_OPENED |-> 8222]

PTP_EVENT_CODE == [OBJECT_ADDED |-> 16386, DEVICE_PROP_CHANGED |-> 16390,
                   CAPTURE_COMPLETE |-> 16397]

PTP_OC_CHDK == 39321

CHDKOperations == [Version |-> 0, TempData |-> 4, UploadFile |-> 5,
                   DownloadFile |-> 6, ExecuteScript |-> 7, ScriptStatus |-> 8,
                   ReadScriptMsg |-> 10, WriteScriptMsg |-> 11,
                   GetDisplayData |-> 12]

CHDKScriptLanguage == [LUA |-> 0, UBASIC |-> 1]

CHDKScriptStatus == [NONE |-> 0, RUN |-> 1, MSG |-> 2]

\* the chunk size of the first bulk read, and of the interrupt read
ChunkSize == 512

\* size of the container header: length (4), type (2), code (2), transaction id (4)
HeaderSize == 12

----------------------------------------------------------------------------
(* Containers and buffers *)

\* Python's None, where a container is expected
None == [len |-> 0, kind |-> -1, code |-> 0, tid |-> 0, params |-> <<>>,
         data |-> 0, n |-> 0]

\* ParamContainer.pack(): header plus one 32-bit word per parameter
ParamContainer(kind, code, tid, params) ==
    [len |-> HeaderSize + 4 * Len(params), kind |-> kind, code |-> code,
     tid |-> tid, params |-> params, data |-> 0,
     n |-> HeaderSize + 4 * Len(params)]

\* DataContainer.pack(): header plus the payload bytes
DataContainer(code, tid, data, size) ==
    [len |-> HeaderSize + size, kind |-> PTP_CONTAINER_TYPE.DATA, code |-> code,
     tid |-> tid, params |-> <<>>, data |-> data, n |-> HeaderSize + size]

\* The bytes of a payload that a read left behind: payloads are zero-filled,
\* so read as a header they decode to length 0 and type 0.
Rest(n) ==
    [len |-> 0, kind |-> 0, code |-> 0, tid |-> 0, params |-> <<>>,
     data |-> 0, n |-> n]

\* One entry of the io log: a read or write of an endpoint with the header of
\* the bytes moved and their first two parameters (-1 where there is none), or a
\* mark: "recv" where a receive begins, "response" where ptp_transaction
\* returns its response, "sleep" where the caller sleeps
IoEvent(ev, ep, c, size, got) ==
    [ev |-> ev, ep |-> ep, kind |-> c.kind, code |-> c.code, tid |-> c.tid,
     p0 |-> IF c.params = <<>> THEN -1 ELSE c.params[1],
     p1 |-> IF Len(c.params) < 2 THEN -1 ELSE c.params[2], data |-> c.data,
     size |-> size, n |-> got]

\* The outcome of a step of a call: the world after it, the exception it
\* raised ("none" when it returned; "hang" when a read with no timeout never
\* returns), the exception's message and the value returned.
Outcome(w, exc, msg, val) == [w |-> w, exc |-> exc, msg |-> msg, val |-> val]

----------------------------------------------------------------------------
(* Transport: self._handle.read / self._handle.write *)

\* A local variable: e is evaluated once and bound to the parameter of F
Let(e, F(_)) == CHOOSE y \in {F(x) : x \in {e}} : TRUE

\* self._handle.read(ep, size): the next chunk of the endpoint's queue, cut
\* to size bytes; what is cut off stays queued.
EndpointRead(q, size) ==
    Let(Head(q), LAMBDA h :
        IF h.n <= size
        THEN [buf |-> h, rest |-> Tail(q)]
        ELSE [buf |-> [h EXCEPT !.n = size],
              rest |-> <<Rest(h.n - size)>> \o Tail(q)])

\* _bulk_read: timeout 0 waits for ever on an empty endpoint
bulk_read(w, size) ==
    IF w.bulk_in = <<>>
    THEN Outcome([w EXCEPT !.io = Append(@, IoEvent("read", "bulk_in", None, size, 0))],
                 "hang", "", None)
    ELSE Let(EndpointRead(w.bulk_in, size), LAMBDA r :
             Outcome([w EXCEPT !.bulk_in = r.rest,
                               !.io = Append(@, IoEvent("read", "bulk_in", r.buf,
                                                        size, r.buf.n))],
                     "none", "", r.buf))

\* The device's answer to a command: it stamps the command's transaction id
\* on every container of the answer and queues the chunks on bulk-in.
DeviceAnswer(q, tid, reply) ==
    q \o [i \in 1..Len(reply) |->
            IF reply[i].kind = 0 THEN reply[i] ELSE [reply[i] EXCEPT !.tid = tid]]

\* _bulk_write / send_ptp_message: the container goes out on bulk-out
send_ptp_message(w, c) ==
    [w EXCEPT !.io = Append(@, IoEvent("write", "bulk_out", c, c.n, c.n))]

\* Lines 106-111 of recv_ptp_message: the declared length from the first
\* four bytes of the first read, one more read of the bytes that are left
RecvRest(r1) ==
    IF r1.exc # "none" THEN r1
    ELSE IF r1.val.n < 4 THEN Outcome(r1.w, "struct.error", "unpack", None)
    ELSE Let(r1.val.len - ChunkSize, LAMBDA bytes_left :
             IF bytes_left > 0
             THEN Let(bulk_read(r1.w, bytes_left), LAMBDA r2 :
                      IF r2.exc # "none" THEN r2
                      ELSE Outcome(r2.w, "none", "",
                                   [r1.val EXCEPT !.n = @ + r2.val.n]))
             ELSE r1)

\* recv_ptp_message: one read of 512 bytes, then the rest.  The log marks
\* where each receive begins.
recv_ptp_message(w) ==
    Let(bulk_read([w EXCEPT !.io = Append(@, IoEvent("recv", "bulk_in", None, 0, 0))],
                  ChunkSize),
        RecvRest)

----------------------------------------------------------------------------
(* _CameraBase: the transaction engine *)

\* The world a call runs in: the fields of the camera object and the device
World == [tid |-> transaction_id, bulk_in |-> bulk_in, intr_in |-> intr_in,
          cmd_ids |-> cmd_ids, io |-> <<>>]

\* new_ptp_command with the increment of line 122 left out
new_ptp_command_NoIncrement(w, op_code, params) ==
    [w |-> w,
     val |-> ParamContainer(PTP_CONTAINER_TYPE.COMMAND, op_code, w.tid, params)]

\* new_ptp_command: a Command container carrying the counter's value; the
\* counter moves on by one
new_ptp_command(w, op_code, params) ==
    [w |-> [w EXCEPT !.tid = @ + 1],
     val |-> ParamContainer(PTP_CONTAINER_TYPE.COMMAND, op_code, w.tid, params)]

\* The Command goes out on bulk-out (the history notes its transaction id)
SendCommand(w, c) ==
    [send_ptp_message(w, c) EXCEPT !.cmd_ids = Append(@, c.tid)]

\* Lines 153-165: the container received in the payload phase, by type.
\* val is <<recvd_response, recvd_data>>.
Classify(r) ==
    IF r.exc # "none" THEN Outcome(r.w, r.exc, r.msg, <<None, None>>)
    ELSE IF r.val.n < 6 THEN Outcome(r.w, "struct.error", "unpack", <<None, None>>)
    ELSE CASE r.val.kind = PTP_CONTAINER_TYPE.DATA ->
                  Outcome(r.w, "none", "", <<None, r.val>>)
           [] r.val.kind = PTP_CONTAINER_TYPE.RESPONSE ->
                  Outcome(r.w, "none", "", <<r.val, None>>)
           [] r.val.kind \in {PTP_CONTAINER_TYPE.COMMAND, PTP_CONTAINER_TYPE.EVENT} ->
                  Outcome(r.w, "none", "", <<None, r.val>>)
           [] OTHER ->
                  Outcome(r.w, "TypeError", "Unknown PTP USB container type",
                          <<None, None>>)

\* The payload phase with a Response taken for inbound payload, like the
\* parameter containers of line 161
PayloadPhase_ResponseAsPayload(w, receiving) ==
    IF ~receiving THEN Outcome(w, "none", "", <<None, None>>)
    ELSE Let(recv_ptp_message(w), LAMBDA r :
             IF r.exc # "none" THEN Outcome(r.w, r.exc, r.msg, <<None, None>>)
             ELSE IF r.val.kind \in {1, 2, 3, 4}
                  THEN Outcome(r.w, "none", "", <<None, r.val>>)
                  ELSE Outcome(r.w, "TypeError", "Unknown PTP USB container type",
                               <<None, None>>))

\* The payload phase of ptp_transaction (lines 150-165): with receiving, the
\* first container on bulk-in, by type
PayloadPhase(w, receiving) ==
    IF ~receiving THEN Outcome(w, "none", "", <<None, None>>)
    ELSE Let(recv_ptp_message(w), Classify)

\* The response phase without the type check of line 172
ResponsePhase_Unchecked(w, recvd) ==
    IF recvd[1] # None THEN Outcome(w, "none", "", recvd)
    ELSE Let(recv_ptp_message(w), LAMBDA r :
             IF r.exc # "none" THEN Outcome(r.w, r.exc, r.msg, <<None, None>>)
             ELSE Outcome(r.w, "none", "", <<r.val, recvd[2]>>))

\* The response phase of ptp_transaction (lines 167-176): when no response
\* has been received yet, the next container on bulk-in must be one.
ResponsePhase(w, recvd) ==
    IF recvd[1] # None THEN Outcome(w, "none", "", recvd)
    ELSE Let(recv_ptp_message(w), LAMBDA r :
             IF r.exc # "none" THEN Outcome(r.w, r.exc, r.msg, <<None, None>>)
             ELSE IF r.val.n < 6
                  THEN Outcome(r.w, "struct.error", "unpack", <<None, None>>)
             ELSE IF r.val.kind = PTP_CONTAINER_TYPE.RESPONSE
                  THEN Outcome(r.w, "none", "", <<r.val, recvd[2]>>)
                  ELSE Outcome(r.w, "TypeError", "Expected response container",
                               <<None, None>>))

\* The send phase with the Data container given a transaction id of its own
SendPhase_FreshDataId(w, command, params, tx_data) ==
    Let(new_ptp_command(w, command, params), LAMBDA c :
        Let(SendCommand(c.w, c.val), LAMBDA w1 :
            IF tx_data # -1
            THEN send_ptp_message([w1 EXCEPT !.tid = @ + 1],
                                  DataContainer(c.val.code, w1.tid, 1, tx_data))
            ELSE w1))

\* The send phase of ptp_transaction (lines 131-148): the Command, then the
\* Data container when tx_data is given (tx_data: the number of bytes of the
\* string, -1 for None).
SendPhase(w, command, params, tx_data) ==
    Let(new_ptp_command(w, command, params), LAMBDA c :
        Let(SendCommand(c.w, c.val), LAMBDA w1 :
            IF tx_data # -1
            THEN send_ptp_message(w1, DataContainer(c.val.code, c.val.tid, 1, tx_data))
            ELSE w1))

\* Lines 178-181: the response is logged and returned
Return(r) ==
    IF r.exc # "none" THEN r
    ELSE [r EXCEPT !.w.io = Append(@, IoEvent("response", "bulk_in", r.val[1], 0, 0))]

\* ptp_transaction: send the request, let the device answer, receive the
\* payload and the response.  reply is what the device answers this command
\* with; val is <<recvd_response, recvd_data>>.
ptp_transaction(w, command, params, tx_data, receiving, reply) ==
    Let(SendPhase(w, command, params, tx_data), LAMBDA w1 :
        Let(PayloadPhase([w1 EXCEPT !.bulk_in = DeviceAnswer(@, w.tid, reply)],
                         receiving),
            LAMBDA p :
                IF p.exc # "none" THEN p
                ELSE Let(ResponsePhase(p.w, p.val), Return)))

\* check_event without the type check of line 94
check_event_Unchecked(w) ==
    IF w.intr_in = <<>>
    THEN Outcome([w EXCEPT !.io = Append(@, IoEvent("read", "intr_in", None, ChunkSize, 0))],
                 "USBError", "timeout", None)
    ELSE Let(EndpointRead(w.intr_in, ChunkSize), LAMBDA r :
             Outcome([w EXCEPT !.intr_in = r.rest,
                               !.io = Append(@, IoEvent("read", "intr_in", r.buf,
                                                        ChunkSize, r.buf.n))],
                     "none", "", r.buf))

\* check_event: one read of the interrupt endpoint (timeout 5000: an empty
\* endpoint raises), which must hold an Event container
check_event(w) ==
    IF w.intr_in = <<>>
    THEN Outcome([w EXCEPT !.io = Append(@, IoEvent("read", "intr_in", None, ChunkSize, 0))],
                 "USBError", "timeout", None)
    ELSE Let(EndpointRead(w.intr_in, ChunkSize), LAMBDA r :
             Let([w EXCEPT !.intr_in = r.rest,
                           !.io = Append(@, IoEvent("read", "intr_in", r.buf,
                                                    ChunkSize, r.buf.n))],
                 LAMBDA w1 :
                     IF r.buf.kind # PTP_CONTAINER_TYPE.EVENT
                     THEN Outcome(w1, "ValueError", "Received non-event container", None)
                     ELSE Outcome(w1, "none", "", r.buf)))

----------------------------------------------------------------------------
(* PTPCamera: the session layer *)

\* self.session_id (line 201)
session_id == 1

\* check_response: anything but OK raises
check_response(w, response) ==
    IF response.code # PTP_RESPONSE_CODE.OK
    THEN Outcome(w, "ValueError", "PTP response code was not OK", FALSE)
    ELSE Outcome(w, "none", "", TRUE)

\* open_session accepting OK only
open_session_OkOnly(w, reply) ==
    Let(ptp_transaction(w, PTP_OPCODE.OPEN_SESSION, <<session_id>>, -1, TRUE, reply),
        LAMBDA t :
            IF t.exc # "none" THEN Outcome(t.w, t.exc, t.msg, FALSE)
            ELSE check_response(t.w, t.val[1]))

\* open_session: OpenSession with the session id; OK and
\* SessionAlreadyOpened are success
open_session(w, reply) ==
    Let(ptp_transaction(w, PTP_OPCODE.OPEN_SESSION, <<session_id>>, -1, TRUE, reply),
        LAMBDA t :
            IF t.exc # "none" THEN Outcome(t.w, t.exc, t.msg, FALSE)
            ELSE IF /\ t.val[1].code # PTP_RESPONSE_CODE.OK
                    /\ t.val[1].code # PTP_RESPONSE_CODE.SESSION_ALREADY_OPENED
                 THEN Outcome(t.w, "ValueError", "Could not open PTP session", FALSE)
                 ELSE Outcome(t.w, "none", "", TRUE))

\* close_session: CloseSession with no parameters; the response must be OK
close_session(w, reply) ==
    Let(ptp_transaction(w, PTP_OPCODE.CLOSE_SESSION, <<>>, -1, TRUE, reply),
        LAMBDA t :
            IF t.exc # "none" THEN Outcome(t.w, t.exc, t.msg, FALSE)
            ELSE check_response(t.w, t.val[1]))

\* initiate_capture: InitiateCapture with two zero parameters; the response
\* must be OK.  val is <<response, data>>.
initiate_capture(w, reply) ==
    Let(ptp_transaction(w, PTP_OPCODE.INITIATE_CAPTURE, <<0, 0>>, -1, TRUE, reply),
        LAMBDA t :
            IF t.exc # "none" THEN t
            ELSE IF t.val[1].code # PTP_RESPONSE_CODE.OK
                 THEN Outcome(t.w, "ValueError", "PTP response code was not OK",
                              <<None, None>>)
                 ELSE t)

\* the later of the two events that has the code, None when neither has
LastWithCode(event1, event2, code) ==
    IF event2.code = code THEN event2
    ELSE IF event1.code = code THEN event1 ELSE None

\* The classification of capture expecting ObjectAdded first and
\* CaptureComplete second
ClassifyEvents_InOrder(w, event1, event2) ==
    IF event1.code # PTP_EVENT_CODE.OBJECT_ADDED
    THEN Outcome(w, "IOError", "ObjectAdded event was not received", -1)
    ELSE IF event2.code # PTP_EVENT_CODE.CAPTURE_COMPLETE
    THEN Outcome(w, "IOError", "CaptureComplete event was not received", -1)
    ELSE IF event1.params = <<>>
    THEN Outcome(w, "IndexError", "list index out of range", -1)
    ELSE Outcome(w, "none", "", event1.params[1])

\* Lines 231-251 of capture: the two events by code, whatever their order
ClassifyEvents(w, event1, event2) ==
    Let(LastWithCode(event1, event2, PTP_EVENT_CODE.OBJECT_ADDED),
        LAMBDA obj_added_event :
    Let(LastWithCode(event1, event2, PTP_EVENT_CODE.CAPTURE_COMPLETE),
        LAMBDA capture_complete_event :
            IF obj_added_event = None
            THEN Outcome(w, "IOError", "ObjectAdded event was not received", -1)
            ELSE IF capture_complete_event = None
            THEN Outcome(w, "IOError", "CaptureComplete event was not received", -1)
            ELSE IF obj_added_event.params = <<>>
            THEN Outcome(w, "IndexError", "list index out of range", -1)
            ELSE Outcome(w, "none", "", obj_added_event.params[1])))

\* The polling of capture going on to a second read after a first that failed
PollEvents_ReadOn(w) ==
    Let(check_event(w), LAMBDA e1 :
        Let(check_event(e1.w), LAMBDA e2 :
            IF e1.exc # "none" THEN Outcome(e2.w, e1.exc, e1.msg, -1)
            ELSE IF e2.exc # "none" THEN Outcome(e2.w, e2.exc, e2.msg, -1)
            ELSE ClassifyEvents(e2.w, e1.val, e2.val)))

\* Lines 234-235 of capture: two reads of the interrupt endpoint
PollEvents(w) ==
    Let(check_event(w), LAMBDA e1 :
        IF e1.exc # "none" THEN Outcome(e1.w, e1.exc, e1.msg, -1)
        ELSE Let(check_event(e1.w), LAMBDA e2 :
                 IF e2.exc # "none" THEN Outcome(e2.w, e2.exc, e2.msg, -1)
                 ELSE ClassifyEvents(e2.w, e1.val, e2.val)))

\* capture: open the session, initiate the capture, check the response
\* again, read two events and return the handle of the object added.  The
\* device answers the two commands with reply1 and reply2 and emits the
\* events evs once it has the InitiateCapture command.
capture(w, reply1, reply2, evs) ==
    Let(open_session(w, reply1), LAMBDA o :
        IF o.exc # "none" THEN Outcome(o.w, o.exc, o.msg, -1)
        ELSE Let(initiate_capture(o.w, reply2), LAMBDA i :
             Let([i.w EXCEPT !.intr_in = @ \o evs], LAMBDA w1 :
                 IF i.exc # "none" THEN Outcome(w1, i.exc, i.msg, -1)
                 ELSE IF i.val[1].code # PTP_RESPONSE_CODE.OK
                      THEN Outcome(w1, "ValueError", "PTP response code was not OK", -1)
                      ELSE PollEvents(w1))))

\* capture_and_download: capture, then GetObject with the handle as its
\* parameter and an inbound payload; lines 261 and 264 read data.length and
\* data.data, and data is None when the response came first.  The device
\* answers GetObject with reply3; val is the buffer returned.
capture_and_download(w, reply1, reply2, evs, reply3) ==
    Let(capture(w, reply1, reply2, evs), LAMBDA c :
        IF c.exc # "none" THEN c
        ELSE Let(ptp_transaction(c.w, PTP_OPCODE.GET_OBJECT, <<c.val>>, -1, TRUE,
                                 reply3),
                 LAMBDA t :
                     IF t.exc # "none" THEN Outcome(t.w, t.exc, t.msg, -1)
                     ELSE IF t.val[2].kind # PTP_CONTAINER_TYPE.DATA
                     THEN Outcome(t.w, "AttributeError", "length", -1)
                     ELSE Outcome(t.w, "none", "",
                                  [data |-> t.val[2].data,
                                   n |-> t.val[2].n - HeaderSize])))

----------------------------------------------------------------------------
(* CHDKCamera: the extension layer *)

\* time.sleep(50e-3), in milliseconds
SleepMs == 50

\* STATUS & bit, for a bit that is a power of two
BitSet(status, bit) == (status \div bit) % 2 = 1

\* The digits of '%X'
HexDigits == <<"0", "1", "2", "3", "4", "5", "6", "7", "8", "9",
               "A", "B", "C", "D", "E", "F">>

\* '%X' % n
RECURSIVE Hex(_)
Hex(n) == IF n < 16 THEN HexDigits[n + 1]
          ELSE Hex(n \div 16) \o HexDigits[(n % 16) + 1]

\* Line 533: "Invalid response for script status: 0x%X" %(STATUS)
InvalidStatusMessage(status) ==
    "Invalid response for script status: 0x" \o Hex(status)

\* check_script_status: ScriptStatus, no payload either way; the status is
\* the first parameter of the response
check_script_status(w, reply) ==
    Let(ptp_transaction(w, PTP_OC_CHDK, <<CHDKOperations.ScriptStatus>>,
                        -1, FALSE, reply),
        LAMBDA t :
            IF t.exc # "none" THEN Outcome(t.w, t.exc, t.msg, -1)
            ELSE IF t.val[1].params = <<>>
                 THEN Outcome(t.w, "IndexError", "list index out of range", -1)
                 ELSE Outcome(t.w, "none", "", t.val[1].params[1]))

\* get_chdk_version: Version, no payload either way; the response holds
\* major and minor.  val is <<major, minor>>.
get_chdk_version(w, reply) ==
    Let(ptp_transaction(w, PTP_OC_CHDK, <<CHDKOperations.Version>>,
                        -1, FALSE, reply),
        LAMBDA t :
            IF t.exc # "none" THEN Outcome(t.w, t.exc, t.msg, <<-1, -1>>)
            ELSE IF Len(t.val[1].params) # 2
                 THEN Outcome(t.w, "ValueError", "unpack", <<-1, -1>>)
                 ELSE Outcome(t.w, "none", "",
                              <<t.val[1].params[1], t.val[1].params[2]>>))

\* write_script_message: WriteScriptMsg with the script id, the message (its
\* length) as payload; the status is the first parameter of the response
write_script_message(w, message, script_id, reply) ==
    Let(ptp_transaction(w, PTP_OC_CHDK,
                        <<CHDKOperations.WriteScriptMsg, script_id>>,
                        message, FALSE, reply),
        LAMBDA t :
            IF t.exc # "none" THEN Outcome(t.w, t.exc, t.msg, -1)
            ELSE IF t.val[1].params = <<>>
                 THEN Outcome(t.w, "IndexError", "list index out of range", -1)
                 ELSE Outcome(t.w, "none", "", t.val[1].params[1]))

\* read_script_message: ReadScriptMsg with an inbound payload.
\* val is <<recvd_response, recvd_data>>.
read_script_message(w, reply) ==
    ptp_transaction(w, PTP_OC_CHDK,
                    <<CHDKOperations.ReadScriptMsg, CHDKScriptLanguage.LUA>>,
                    -1, TRUE, reply)

\* The locals of _wait_for_script_return: its timeout argument, the time
\* since t_start in milliseconds, msg_count, msgs; polled is the history of
\* the statuses it has seen.
NoWait == [active |-> FALSE, timeout |-> 0, elapsed |-> 0, msg_count |-> 1,
           msgs |-> <<>>, polled |-> <<>>]

\* Lines 510-512: the loop is entered
StartWait(timeout) == [NoWait EXCEPT !.active = TRUE, !.timeout = timeout]

\* Lines 523-527: one message is read and appended to msgs
ReadOne(w, wt, msg_reply) ==
    Let(read_script_message(w, msg_reply), LAMBDA m :
        IF m.exc # "none"
        THEN Outcome(m.w, m.exc, m.msg, [wt EXCEPT !.active = FALSE])
        ELSE Outcome(m.w, "waiting", "",
                     [wt EXCEPT !.msg_count = @ + 1, !.msgs = Append(@, m.val)]))

\* Lines 517-521: the sleep, then the comparison with the timeout
SleepAndCheck(w, wt, delay) ==
    Let([w EXCEPT !.io = Append(@, IoEvent("sleep", "", None, SleepMs, 0))],
        LAMBDA w1 :
    Let([wt EXCEPT !.elapsed = @ + SleepMs + delay], LAMBDA wt1 :
        IF wt1.timeout > 0 /\ wt1.timeout > wt1.elapsed
        THEN Outcome(w1, "PTPError", "Timeout waiting for script to return",
                     [wt1 EXCEPT !.active = FALSE])
        ELSE Outcome(w1, "waiting", "", wt1)))

\* One turn of the loop with the message bit looked at before the run bit
WaitIteration_MsgFirst(w, wt, status_reply, msg_reply, delay) ==
    Let(check_script_status(w, status_reply), LAMBDA s :
        IF s.exc # "none"
        THEN Outcome(s.w, s.exc, s.msg, [wt EXCEPT !.active = FALSE])
        ELSE Let([wt EXCEPT !.polled = Append(@, s.val)], LAMBDA wt1 :
             IF BitSet(s.val, CHDKScriptStatus.MSG)
             THEN ReadOne(s.w, wt1, msg_reply)
             ELSE IF BitSet(s.val, CHDKScriptStatus.RUN)
             THEN SleepAndCheck(s.w, wt1, delay)
             ELSE IF s.val = CHDKScriptStatus.NONE
             THEN Outcome(s.w, "none", "", [wt1 EXCEPT !.active = FALSE])
             ELSE Outcome(s.w, "PTPError", InvalidStatusMessage(s.val),
                          [wt1 EXCEPT !.active = FALSE])))

\* One turn of the loop where status 0 does not end the wait
WaitIteration_IdleGoesOn(w, wt, status_reply, msg_reply, delay) ==
    Let(check_script_status(w, status_reply), LAMBDA s :
        IF s.exc # "none"
        THEN Outcome(s.w, s.exc, s.msg, [wt EXCEPT !.active = FALSE])
        ELSE Let([wt EXCEPT !.polled = Append(@, s.val)], LAMBDA wt1 :
             IF BitSet(s.val, CHDKScriptStatus.RUN)
             THEN SleepAndCheck(s.w, wt1, delay)
             ELSE IF BitSet(s.val, CHDKScriptStatus.MSG)
             THEN ReadOne(s.w, wt1, msg_reply)
             ELSE IF s.val = CHDKScriptStatus.NONE
             THEN Outcome(s.w, "waiting", "", wt1)
             ELSE Outcome(s.w, "PTPError", InvalidStatusMessage(s.val),
                          [wt1 EXCEPT !.active = FALSE])))

\* One turn of the loop where a status without a recognized bit ends the
\* wait like status 0
WaitIteration_UnknownIsIdle(w, wt, status_reply, msg_reply, delay) ==
    Let(check_script_status(w, status_reply), LAMBDA s :
        IF s.exc # "none"
        THEN Outcome(s.w, s.exc, s.msg, [wt EXCEPT !.active = FALSE])
        ELSE Let([wt EXCEPT !.polled = Append(@, s.val)], LAMBDA wt1 :
             IF BitSet(s.val, CHDKScriptStatus.RUN)
             THEN SleepAndCheck(s.w, wt1, delay)
             ELSE IF BitSet(s.val, CHDKScriptStatus.MSG)
             THEN ReadOne(s.w, wt1, msg_reply)
             ELSE Outcome(s.w, "none", "", [wt1 EXCEPT !.active = FALSE])))

\* One turn of the loop of _wait_for_script_return (lines 515-533).  The
\* device answers the status poll with status_reply and a ReadScriptMsg with
\* msg_reply; delay is the time the turn took beyond the sleep.  exc is
\* "waiting" when the loop goes round again, "none" when it breaks.
WaitIteration(w, wt, status_reply, msg_reply, delay) ==
    Let(check_script_status(w, status_reply), LAMBDA s :
        IF s.exc # "none"
        THEN Outcome(s.w, s.exc, s.msg, [wt EXCEPT !.active = FALSE])
        ELSE Let([wt EXCEPT !.polled = Append(@, s.val)], LAMBDA wt1 :
             IF BitSet(s.val, CHDKScriptStatus.RUN)
             THEN SleepAndCheck(s.w, wt1, delay)
             ELSE IF BitSet(s.val, CHDKScriptStatus.MSG)
             THEN ReadOne(s.w, wt1, msg_reply)
             ELSE IF s.val = CHDKScriptStatus.NONE
             THEN Outcome(s.w, "none", "", [wt1 EXCEPT !.active = FALSE])
             ELSE Outcome(s.w, "PTPError", InvalidStatusMessage(s.val),
                          [wt1 EXCEPT !.active = FALSE])))

\* Lines 335-343 of execute_lua: the script, NUL-terminated, goes out as
\* the payload of ExecuteScript; the response holds script_id and
\* script_error.  script is the string: its length and whether it ends in
\* NUL.  val is <<script_id, script_error, msgs>>.
execute_lua(w, script, reply) ==
    Let(ptp_transaction(w, PTP_OC_CHDK,
                        <<CHDKOperations.ExecuteScript, CHDKScriptLanguage.LUA>>,
                        IF script.nul THEN script.len ELSE script.len + 1,
                        FALSE, reply),
        LAMBDA t :
            IF t.exc # "none" THEN Outcome(t.w, t.exc, t.msg, <<-1, -1, <<>>>>)
            ELSE IF Len(t.val[1].params) # 2
                 THEN Outcome(t.w, "ValueError", "unpack", <<-1, -1, <<>>>>)
                 ELSE Outcome(t.w, "none", "",
                              <<t.val[1].params[1], t.val[1].params[2], <<>>>>))

----------------------------------------------------------------------------
(* CHDKCamera: file transfer and live view *)

\* chdk_ptp_values.CHDKResponses: the statuses of the extension layer
CHDKResponses == [OK |-> 8193, GENERAL_ERROR |-> 8194]

\* chdk_ptp_values.CHDKResponses.message: the text for a status
CHDKResponsesMessage ==
    [c \in {CHDKResponses.OK, CHDKResponses.GENERAL_ERROR} |->
        IF c = CHDKResponses.OK THEN "OK" ELSE "General error"]

\* chdk_ptp_values.CHDKTempData: the selectors of TempData
CHDKTempData == [DOWNLOAD |-> 1, CLEAR |-> 2]

\* chdk_ptp_values.CHDKLVTransfer: the sections of a live view frame
CHDKLVTransfer == [VIEWPORT |-> 1, BITMAP |-> 4, PALETTE |-> 8]

\* A str argument is its length and whether it ends in NUL; this is the
\* length after `if not s.endswith('\0'): s += '\0'`
NulTerminated(str) == IF str.nul THEN str.len ELSE str.len + 1

\* The status check with every status let through
CheckRetCode_Ignored(w, tempdata_response) == Outcome(w, "none", "", 0)

\* Lines 441-444 and 450-453: ret_code is the first parameter of the
\* TempData response; a PTPError has the code as val
CheckRetCode(w, tempdata_response) ==
    IF tempdata_response.params = <<>>
    THEN Outcome(w, "IndexError", "list index out of range", -1)
    ELSE Let(tempdata_response.params[1], LAMBDA ret_code :
             IF ret_code # CHDKResponses.OK
             THEN IF ret_code \in DOMAIN CHDKResponsesMessage
                  THEN Outcome(w, "PTPError", CHDKResponsesMessage[ret_code], ret_code)
                  ELSE Outcome(w, "KeyError", "", ret_code)
             ELSE Outcome(w, "none", "", ret_code))

\* The end of download_file with the TempData field left as it is
ClearTempData_Skipped(w, reply) == Outcome(w, "none", "", <<None, None>>)

\* Lines 456-458: the TempData field is cleared; the response is not looked at
ClearTempData(w, reply) ==
    ptp_transaction(w, PTP_OC_CHDK,
                    <<CHDKOperations.TempData, CHDKTempData.CLEAR>>,
                    -1, FALSE, reply)

\* Line 461: dlfile_data.data, the bytes of the container after its header
DataOf(w, dlfile_data) ==
    IF dlfile_data.kind # PTP_CONTAINER_TYPE.DATA
    THEN Outcome(w, "AttributeError", "data", -1)
    ELSE Outcome(w, "none", "",
                 [data |-> dlfile_data.data, n |-> dlfile_data.n - HeaderSize])

\* Lines 446-461: DownloadFile, the check of ret_code (again the first
\* parameter of the TempData response), the clear and the return
FetchAndClear(w, tempdata_response, reply2, reply3) ==
    Let(ptp_transaction(w, PTP_OC_CHDK, <<CHDKOperations.DownloadFile>>,
                        -1, TRUE, reply2),
        LAMBDA f :
            IF f.exc # "none" THEN Outcome(f.w, f.exc, f.msg, -1)
            ELSE Let(CheckRetCode(f.w, tempdata_response), LAMBDA c2 :
                 IF c2.exc # "none" THEN c2
                 ELSE Let(ClearTempData(f.w, reply3), LAMBDA c :
                      IF c.exc # "none" THEN Outcome(c.w, c.exc, c.msg, -1)
                      ELSE DataOf(c.w, f.val[2]))))

\* download_file: the device answers the three commands with reply1, reply2
\* and reply3.  val is the buffer returned.
download_file(w, filename, reply1, reply2, reply3) ==
    Let(ptp_transaction(w, PTP_OC_CHDK, <<CHDKOperations.TempData, 0>>,
                        NulTerminated(filename), FALSE, reply1),
        LAMBDA t :
            IF t.exc # "none" THEN Outcome(t.w, t.exc, t.msg, -1)
            ELSE Let(CheckRetCode(t.w, t.val[1]), LAMBDA c1 :
                 IF c1.exc # "none" THEN c1
                 ELSE FetchAndClear(t.w, t.val[1], reply2, reply3)))

\* __pack_file_for_upload (Python 2, which the module's imports need).
\* remote_filename is None (none) or a str; the file is there or not, with
\* size bytes.  val is the length of the buffer.
pack_file_for_upload(local_filename, remote_filename) ==
    IF remote_filename.none
    THEN Outcome(0, "AttributeError", "'NoneType' object has no attribute 'rfind'", -1)
    ELSE Let(NulTerminated(remote_filename), LAMBDA filename_len :
        \* '<I%dc' takes filename_len one-character arguments and is given one str
        IF filename_len # 1
        THEN Outcome(0, "struct.error", "pack requires a different number of arguments", -1)
        ELSE IF ~local_filename.exists
        THEN Outcome(0, "IOError", "No such file or directory", -1)
        \* '<%dB' takes integers and is given the characters of a str
        ELSE IF local_filename.size > 0
        THEN Outcome(0, "struct.error", "cannot convert argument to integer", -1)
        ELSE Outcome(0, "none", "", 4 + filename_len + local_filename.size))

\* upload_file: the packed file goes out as the payload of UploadFile; line
\* 419 reads ret_code, a name the function never binds
upload_file(w, local_filename, remote_filename, reply) ==
    Let(pack_file_for_upload(local_filename, remote_filename), LAMBDA filestr :
        IF filestr.exc # "none" THEN Outcome(w, filestr.exc, filestr.msg, -1)
        ELSE Let(ptp_transaction(w, PTP_OC_CHDK, <<CHDKOperations.UploadFile>>,
                                 filestr.val, FALSE, reply),
                 LAMBDA t :
                     IF t.exc # "none" THEN Outcome(t.w, t.exc, t.msg, -1)
                     ELSE Outcome(t.w, "NameError",
                                  "global name 'ret_code' is not defined", -1)))

\* Lines 478-487: the flags of the sections asked for
LiveViewFlags(liveview, overlay, palette) ==
      (IF liveview THEN CHDKLVTransfer.VIEWPORT ELSE 0)
    + (IF overlay THEN CHDKLVTransfer.BITMAP ELSE 0)
    + (IF palette THEN CHDKLVTransfer.PALETTE ELSE 0)

\* typedefs.CHDK_LV_Data(recvd_data.data): the frame made of the payload
CHDK_LV_Data(recvd_data) ==
    [frame |-> TRUE, data |-> recvd_data.data, n |-> recvd_data.n - HeaderSize]

\* The frame when there is none
NoFrame == [frame |-> FALSE, data |-> 0, n |-> 0]

\* get_live_view_data: GetDisplayData with an inbound payload; line 493
\* reads recvd_data.type, and recvd_data is None when the response came
\* first.  val is <<recvd_response, lv_data>>.
get_live_view_data(w, liveview, overlay, palette, reply) ==
    Let(ptp_transaction(w, PTP_OC_CHDK,
                        <<CHDKOperations.GetDisplayData,
                          LiveViewFlags(liveview, overlay, palette)>>,
                        -1, TRUE, reply),
        LAMBDA t :
            IF t.exc # "none" THEN Outcome(t.w, t.exc, t.msg, <<None, NoFrame>>)
            ELSE IF t.val[2] = None
            THEN Outcome(t.w, "AttributeError",
                         "'NoneType' object has no attribute 'type'",
                         <<None, NoFrame>>)
            ELSE IF t.val[2].kind = PTP_CONTAINER_TYPE.DATA
            THEN Outcome(t.w, "none", "", <<t.val[1], CHDK_LV_Data(t.val[2])>>)
            ELSE Outcome(t.w, "none", "", <<t.val[1], NoFrame>>))

----------------------------------------------------------------------------
(* The device: what it may queue on the endpoints *)

\* A Response container with the given code and parameters
Response(code, params) == ParamContainer(PTP_CONTAINER_TYPE.RESPONSE, code, 0, params)

\* An Event container with the given code and parameters
Event(code, params) == ParamContainer(PTP_CONTAINER_TYPE.EVENT, code, 0, params)

\* The ways the transport may deliver container c: in one piece, or cut into
\* pieces that each read returns one of
Segments(c) ==
    {<<c>>}
    \cup (IF c.n > ChunkSize
          THEN {<<[c EXCEPT !.n = ChunkSize], Rest(c.n - ChunkSize)>>,
                <<[c EXCEPT !.n = 64], Rest(c.n - 64)>>}
          ELSE {})
    \cup (IF c.n > ChunkSize + 256
          THEN {<<[c EXCEPT !.n = ChunkSize], Rest(256), Rest(c.n - ChunkSize - 256)>>}
          ELSE {})

\* Data containers of the device: a few bytes, one chunk and two chunks long
DeviceData ==
    {DataContainer(PTP_OPCODE.GET_OBJECT, 0, d[1], d[2]) :
        d \in {<<1, 4>>, <<2, 500>>, <<3, 1012>>}}

\* The containers the device answers a command of the engine with: responses,
\* data, a parameter container echoed back, a container of no known type
EngineContainers ==
    {Response(PTP_RESPONSE_CODE.OK, <<>>),
     DataContainer(PTP_OPCODE.GET_OBJECT, 0, 3, 1012),
     Event(PTP_EVENT_CODE.OBJECT_ADDED, <<7>>),
     ParamContainer(PTP_CONTAINER_TYPE.COMMAND, PTP_OPCODE.GET_OBJECT, 0, <<7>>),
     ParamContainer(5, 0, 0, <<>>)}

\* Answers of at most two containers, each delivered in one piece; the
\* second one is a response, or an event after a payload
EngineReplies ==
    {<<>>} \cup {<<a>> : a \in EngineContainers}
           \cup {<<a, Response(PTP_RESPONSE_CODE.OK, <<>>)>> : a \in EngineContainers}
           \cup {<<a, Event(PTP_EVENT_CODE.OBJECT_ADDED, <<7>>)>> :
                     a \in {c \in EngineContainers :
                               c.kind \in {PTP_CONTAINER_TYPE.DATA,
                                           PTP_CONTAINER_TYPE.EVENT}}}

\* Events and other containers the device may put on the interrupt endpoint
DeviceEvents ==
    {Event(PTP_EVENT_CODE.OBJECT_ADDED, <<7>>),
     Event(PTP_EVENT_CODE.OBJECT_ADDED, <<9>>),
     Event(PTP_EVENT_CODE.CAPTURE_COMPLETE, <<>>),
     Event(PTP_EVENT_CODE.DEVICE_PROP_CHANGED, <<5>>),
     Response(PTP_RESPONSE_CODE.OK, <<>>)}

\* What the device emits on the interrupt endpoint during one capture
CaptureEvents ==
    {<<>>} \cup {<<a>> : a \in DeviceEvents} \cup {<<a, b>> : a, b \in DeviceEvents}

\* The device's answers to a command of the session layer: a response with
\* one of three codes, or a container of no known type before the response
SessionReplies ==
    {<<Response(c, <<>>)>> : c \in {PTP_RESPONSE_CODE.OK, PTP_RESPONSE_CODE.GENERAL_ERROR,
                                    PTP_RESPONSE_CODE.SESSION_ALREADY_OPENED}}
    \cup {<<ParamContainer(5, 0, 0, <<>>), Response(PTP_RESPONSE_CODE.OK, <<>>)>>}

----------------------------------------------------------------------------
(* Calls *)

Init ==
    /\ transaction_id = 0
    /\ bulk_in = <<>>
    /\ intr_in = <<>>
    /\ cmd_ids = <<>>
    /\ io = <<>>
    /\ call = [op |-> "init", command |-> 0, tx_data |-> -1, receiving |-> FALSE]
    /\ ret = Outcome(0, "none", "", <<None, None>>)
    /\ wait = NoWait

\* A call can be made: the previous one came back, by return or exception
Ready == ret.exc \notin {"hang", "waiting"}

\* The outcome of a step becomes the state
CommitWait(r, c, wt) ==
    /\ transaction_id' = r.w.tid
    /\ bulk_in' = r.w.bulk_in
    /\ intr_in' = r.w.intr_in
    /\ cmd_ids' = r.w.cmd_ids
    /\ io' = r.w.io
    /\ call' = c
    /\ ret' = Outcome(0, r.exc, r.msg, r.val)
    /\ wait' = wt

\* The call's outcome becomes the state
Commit(r, c) == CommitWait(r, c, wait)

\* A caller runs ptp_transaction
PtpTransaction ==
    /\ Ready
    /\ transaction_id < MaxTid
    /\ \E command \in {PTP_OPCODE.GET_OBJECT}, tx_data \in {-1, 8},
          receiving \in BOOLEAN, reply \in EngineReplies :
          /\ Len(bulk_in) + Len(reply) <= MaxQueue
          /\ \E r \in {ptp_transaction(World, command, <<7>>, tx_data, receiving, reply)} :
                Commit(r, [op |-> "ptp_transaction", command |-> command,
                           tx_data |-> tx_data, receiving |-> receiving])

\* A caller runs recv_ptp_message on a container the device delivers
RecvPtpMessage ==
    /\ Ready
    /\ \E c \in DeviceData : \E segs \in Segments(c) :
          /\ Len(bulk_in) + Len(segs) <= MaxQueue
          /\ \E r \in {recv_ptp_message([World EXCEPT !.bulk_in = @ \o segs])} :
             Commit(Outcome(r.w, r.exc, r.msg, <<None, r.val>>),
                    [op |-> "recv_ptp_message", command |-> c.len,
                     tx_data |-> -1, receiving |-> TRUE])

\* A caller runs check_event; the device may put a container on the
\* interrupt endpoint before the read times out
CheckEvent ==
    /\ Ready
    /\ \E evs \in {<<>>} \cup {<<e>> : e \in DeviceEvents} :
          /\ Len(intr_in) + Len(evs) <= MaxIntr
          /\ \E r \in {check_event([World EXCEPT !.intr_in = @ \o evs])} :
             Commit(Outcome(r.w, r.exc, r.msg, <<None, r.val>>),
                    [op |-> "check_event", command |-> 0, tx_data |-> -1,
                     receiving |-> FALSE])

\* A caller runs new_ptp_command on its own: the counter moves on and the
\* Command is returned, not sent
NewPtpCommand ==
    /\ Ready
    /\ transaction_id < MaxTid
    /\ \E c \in {new_ptp_command(World, PTP_OPCODE.GET_OBJECT, <<7>>)} :
          Commit(Outcome(c.w, "none", "", <<None, c.val>>),
                 [op |-> "new_ptp_command", command |-> PTP_OPCODE.GET_OBJECT,
                  tx_data |-> -1, receiving |-> FALSE])

\* The containers a caller packs and sends on its own
SentContainers ==
    {ParamContainer(PTP_CONTAINER_TYPE.COMMAND, PTP_OPCODE.GET_OBJECT, 0, <<7>>),
     DataContainer(PTP_OPCODE.GET_OBJECT, 0, 1, 8)}

\* A caller runs send_ptp_message on its own: the container goes out, the
\* counter stays; the call returns the number of bytes written (line 101)
SendPtpMessage ==
    /\ Ready
    /\ Len(cmd_ids) < MaxTid
    /\ \E c \in SentContainers :
          \E w \in {IF c.kind = PTP_CONTAINER_TYPE.COMMAND
                     THEN SendCommand(World, c)
                     ELSE send_ptp_message(World, c)} :
              Commit(Outcome(w, "none", "", c.n),
                     [op |-> "send_ptp_message", command |-> c.code,
                      tx_data |-> -1, receiving |-> FALSE])

NextEngine == PtpTransaction \/ RecvPtpMessage \/ CheckEvent

SpecEngine == Init /\ [][NextEngine]_vars

NextPrimitives == PtpTransaction \/ NewPtpCommand \/ SendPtpMessage

\* ptp_transaction among calls of the methods it is made of
SpecPrimitives == Init /\ [][NextPrimitives]_vars

\* the call record of an operation without arguments of its own
Op(name) == [op |-> name, command |-> 0, tx_data |-> -1, receiving |-> TRUE]

\* A caller runs open_session
OpenSession ==
    /\ Ready
    /\ transaction_id < MaxTid
    /\ \E reply \in SessionReplies :
          /\ Len(bulk_in) + Len(reply) <= MaxQueue
          /\ \E r \in {open_session(World, reply)} : Commit(r, Op("open_session"))

\* A caller runs close_session
CloseSession ==
    /\ Ready
    /\ transaction_id < MaxTid
    /\ \E reply \in SessionReplies :
          /\ Len(bulk_in) + Len(reply) <= MaxQueue
          /\ \E r \in {close_session(World, reply)} : Commit(r, Op("close_session"))

\* A caller runs initiate_capture
InitiateCapture ==
    /\ Ready
    /\ transaction_id < MaxTid
    /\ \E reply \in SessionReplies :
          /\ Len(bulk_in) + Len(reply) <= MaxQueue
          /\ \E r \in {initiate_capture(World, reply)} : Commit(r, Op("initiate_capture"))

\* A caller runs capture
Capture ==
    /\ Ready
    /\ transaction_id + 1 < MaxTid
    /\ \E reply1, reply2 \in SessionReplies, evs \in CaptureEvents :
          /\ Len(bulk_in) + Len(reply1) + Len(reply2) <= MaxQueue
          /\ Len(intr_in) + Len(evs) <= MaxIntr
          /\ \E r \in {capture(World, reply1, reply2, evs)} : Commit(r, Op("capture"))

\* The device's answers to GetObject: the image and a response, or an
\* error response alone
GetObjectReplies ==
    {<<DataContainer(PTP_OPCODE.GET_OBJECT, 0, 3, 1012),
       Response(PTP_RESPONSE_CODE.OK, <<>>)>>,
     <<Response(PTP_RESPONSE_CODE.GENERAL_ERROR, <<>>)>>}

\* A caller runs capture_and_download
CaptureAndDownload ==
    /\ Ready
    /\ transaction_id + 1 < MaxTid
    /\ \E reply1, reply2 \in SessionReplies, evs \in CaptureEvents,
          reply3 \in GetObjectReplies :
          /\ Len(bulk_in) + Len(reply1) + Len(reply2) <= MaxQueue
          /\ Len(intr_in) + Len(evs) <= MaxIntr
          /\ \E r \in {capture_and_download(World, reply1, reply2, evs, reply3)} :
                /\ Len(r.w.bulk_in) <= MaxQueue
                /\ Commit(r, Op("capture_and_download"))

NextSession ==
    \/ OpenSession
    \/ CloseSession
    \/ InitiateCapture
    \/ Capture
    \/ CaptureAndDownload

SpecSession == Init /\ [][NextSession]_vars

\* The script statuses the device reports: idle, the recognized bits and
\* their combination, an unrecognized bit alone and with a recognized one
Statuses == {0, 1, 2, 3, 4, 5}

\* The device's answer to ScriptStatus
StatusReply(status) == <<Response(PTP_RESPONSE_CODE.OK, <<status>>)>>

\* The device's answer to ReadScriptMsg: message m as Data, then the response
MessageReply(m) ==
    <<DataContainer(PTP_OC_CHDK, 0, m, 4), Response(PTP_RESPONSE_CODE.OK, <<m>>)>>

\* The time a turn of the wait loop may take beyond its sleep, in milliseconds
Delays == {0, 60}

\* The scripts a caller runs: with and without the final NUL
Scripts == {[len |-> 6, nul |-> TRUE], [len |-> 5, nul |-> FALSE]}

\* The device's answers to ExecuteScript: script_id and script_error, or a
\* response without them
ExecuteReplies == {<<Response(PTP_RESPONSE_CODE.OK, <<1, 0>>)>>,
                   <<Response(PTP_RESPONSE_CODE.GENERAL_ERROR, <<>>)>>}

\* A caller runs check_script_status
CheckScriptStatus ==
    /\ Ready
    /\ transaction_id < MaxTid
    /\ \E status \in Statuses :
          \E r \in {check_script_status(World, StatusReply(status))} :
              Commit(r, Op("check_script_status"))

\* A caller runs read_script_message
ReadScriptMessage ==
    /\ Ready
    /\ transaction_id < MaxTid
    /\ \E m \in {1, 2} :
          \E r \in {read_script_message(World, MessageReply(m))} :
              Commit(r, Op("read_script_message"))

\* The device's answers to Version: major and minor, or a response without them
VersionReplies == {<<Response(PTP_RESPONSE_CODE.OK, <<2, 8>>)>>,
                   <<Response(PTP_RESPONSE_CODE.GENERAL_ERROR, <<>>)>>}

\* A caller runs get_chdk_version
GetChdkVersion ==
    /\ Ready
    /\ transaction_id < MaxTid
    /\ \E reply \in VersionReplies :
          \E r \in {get_chdk_version(World, reply)} :
              Commit(r, Op("get_chdk_version"))

\* The device's answers to WriteScriptMsg: a delivery status, or a response
\* without one
WriteReplies == {<<Response(PTP_RESPONSE_CODE.OK, <<1>>)>>,
                 <<Response(PTP_RESPONSE_CODE.GENERAL_ERROR, <<>>)>>}

\* A caller runs write_script_message with a message of four characters
WriteScriptMessage ==
    /\ Ready
    /\ transaction_id < MaxTid
    /\ \E script_id \in {0, 1}, reply \in WriteReplies :
          \E r \in {write_script_message(World, 4, script_id, reply)} :
              Commit(r, [Op("write_script_message") EXCEPT !.tx_data = 4])

\* A caller runs execute_lua: with block false it returns at once, with
\* block true it enters _wait_for_script_return with no timeout (line 348)
ExecuteLua ==
    /\ Ready
    /\ transaction_id < MaxTid
    /\ \E script \in Scripts, block \in BOOLEAN, reply \in ExecuteReplies :
          \E r \in {execute_lua(World, script, reply)} :
          \E c \in {[op |-> "execute_lua", command |-> PTP_OC_CHDK,
                      tx_data |-> script.len, receiving |-> FALSE, block |-> block]} :
              IF block /\ r.exc = "none"
              THEN CommitWait(Outcome(r.w, "waiting", "", r.val), c, StartWait(0))
              ELSE CommitWait(r, c, NoWait)

\* The deadlines a caller gives _wait_for_script_return, in milliseconds:
\* shorter than one sleep, and between one sleep and a slow turn
Timeouts == {40, 100}

\* A caller runs _wait_for_script_return with a timeout: the loop is entered
WaitForScriptReturn ==
    /\ Ready
    /\ transaction_id < MaxTid
    /\ \E timeout \in Timeouts :
          /\ transaction_id' = transaction_id
          /\ bulk_in' = bulk_in
          /\ intr_in' = intr_in
          /\ cmd_ids' = cmd_ids
          /\ io' = <<>>
          /\ call' = [op |-> "_wait_for_script_return", command |-> 0,
                      tx_data |-> -1, receiving |-> FALSE, block |-> TRUE]
          /\ ret' = Outcome(0, "waiting", "", <<-1, -1, <<>>>>)
          /\ wait' = StartWait(timeout)

\* The wait loop of the running call goes round once; the device
\* numbers the messages of the script as it hands them out
WaitPoll ==
    /\ wait.active
    /\ Len(wait.polled) < MaxPolls
    /\ \E status \in Statuses, delay \in Delays :
          \E r \in {WaitIteration([World EXCEPT !.io = io], wait,
                                   StatusReply(status),
                                   MessageReply(Len(wait.msgs) + 1), delay)} :
              CommitWait(Outcome(r.w, r.exc, r.msg,
                                 <<ret.val[1], ret.val[2], r.val.msgs>>),
                         call, r.val)

NextCHDK ==
    \/ CheckScriptStatus
    \/ ReadScriptMessage
    \/ GetChdkVersion
    \/ WriteScriptMessage
    \/ ExecuteLua
    \/ WaitForScriptReturn
    \/ WaitPoll

SpecCHDK == Init /\ [][NextCHDK]_vars

\* The statuses of a script that runs and hands out messages for a while and
\* then ends: after MaxPolls - 1 polls the device reports 0
ScriptStatuses(polls) ==
    IF polls < MaxPolls - 1
    THEN {CHDKScriptStatus.NONE, CHDKScriptStatus.RUN, CHDKScriptStatus.MSG}
    ELSE {CHDKScriptStatus.NONE}

\* The wait loop of the running execute_lua goes round once, against a
\* script that ends
ScriptPoll ==
    /\ wait.active
    /\ Len(wait.polled) < MaxPolls
    /\ \E status \in ScriptStatuses(Len(wait.polled)), delay \in Delays :
          \E r \in {WaitIteration([World EXCEPT !.io = io], wait,
                                   StatusReply(status),
                                   MessageReply(Len(wait.msgs) + 1), delay)} :
              CommitWait(Outcome(r.w, r.exc, r.msg,
                                 <<ret.val[1], ret.val[2], r.val.msgs>>),
                         call, r.val)

NextLive == ExecuteLua \/ ScriptPoll

\* execute_lua against a script that ends; the loop, once entered, keeps
\* running: nothing else runs on the handle and every turn returns
SpecLive == Init /\ [][NextLive]_vars /\ WF_vars(ScriptPoll)

\* The device's answer with an extension-layer status: the status is the
\* response code and the first parameter
StatusResponse(status) == Response(status, <<status>>)

\* The file a DownloadFile or GetDisplayData answer carries
FileData == DataContainer(PTP_OC_CHDK, 0, 1, 20)

\* The device's answers to TempData: a status, or an error code alone
TempDataReplies ==
    {<<StatusResponse(CHDKResponses.OK)>>,
     <<StatusResponse(CHDKResponses.GENERAL_ERROR)>>,
     <<Response(PTP_RESPONSE_CODE.GENERAL_ERROR, <<>>)>>}

\* The device's answers to DownloadFile: the file and a status, or a status alone
DownloadReplies ==
    {<<FileData, StatusResponse(CHDKResponses.OK)>>,
     <<FileData, StatusResponse(CHDKResponses.GENERAL_ERROR)>>,
     <<StatusResponse(CHDKResponses.GENERAL_ERROR)>>}

\* The device's answers to UploadFile
UploadReplies ==
    {<<StatusResponse(CHDKResponses.OK)>>,
     <<StatusResponse(CHDKResponses.GENERAL_ERROR)>>}

\* The device's answers to GetDisplayData: a frame, a response alone, an
\* event in place of the frame
DisplayReplies ==
    {<<FileData, StatusResponse(CHDKResponses.OK)>>,
     <<StatusResponse(CHDKResponses.OK)>>,
     <<StatusResponse(CHDKResponses.GENERAL_ERROR)>>,
     <<Event(PTP_EVENT_CODE.DEVICE_PROP_CHANGED, <<5>>),
       StatusResponse(CHDKResponses.OK)>>}

\* The paths a caller downloads: with and without the final NUL
Filenames == {[len |-> 10, nul |-> TRUE], [len |-> 9, nul |-> FALSE]}

\* The local files a caller uploads: empty, with content, missing
LocalFiles == {[exists |-> TRUE, size |-> 0], [exists |-> TRUE, size |-> 3],
               [exists |-> FALSE, size |-> 0]}

\* The remote names a caller uploads to: None, '', NUL alone, a name
RemoteNames == {[none |-> TRUE, len |-> 0, nul |-> FALSE],
                [none |-> FALSE, len |-> 0, nul |-> FALSE],
                [none |-> FALSE, len |-> 1, nul |-> TRUE],
                [none |-> FALSE, len |-> 5, nul |-> FALSE]}

\* The call record of a file or live view operation: its arguments and the
\* answers the device gives to its commands, in order
FileOp(name, arg, replies) ==
    [op |-> name, command |-> PTP_OC_CHDK, tx_data |-> arg, receiving |-> TRUE,
     replies |-> replies]

\* A caller runs download_file
DownloadFile ==
    /\ Ready
    /\ transaction_id < MaxTid
    /\ \E filename \in Filenames, reply1 \in TempDataReplies,
          reply2 \in DownloadReplies, reply3 \in TempDataReplies :
          \E r \in {download_file(World, filename, reply1, reply2, reply3)} :
              /\ Len(r.w.bulk_in) <= MaxQueue
              /\ Commit(r, FileOp("download_file", NulTerminated(filename),
                                  <<reply1, reply2, reply3>>))

\* A caller runs upload_file
UploadFile ==
    /\ Ready
    /\ transaction_id < MaxTid
    /\ \E local_filename \in LocalFiles, remote_filename \in RemoteNames,
          reply \in UploadReplies :
          \E r \in {upload_file(World, local_filename, remote_filename, reply)} :
              /\ Len(r.w.bulk_in) <= MaxQueue
              /\ Commit(r, FileOp("upload_file", local_filename.size, <<reply>>))

\* A caller runs get_live_view_data
GetLiveViewData ==
    /\ Ready
    /\ transaction_id < MaxTid
    /\ \E liveview, overlay, palette \in BOOLEAN, reply \in DisplayReplies :
          \E r \in {get_live_view_data(World, liveview, overlay, palette, reply)} :
              /\ Len(r.w.bulk_in) <= MaxQueue
              /\ Commit(r, FileOp("get_live_view_data",
                                  LiveViewFlags(liveview, overlay, palette),
                                  <<reply>>))

NextFiles == DownloadFile \/ UploadFile \/ GetLiveViewData

SpecFiles == Init /\ [][NextFiles]_vars

----------------------------------------------------------------------------
(* Reading the io log of the last call *)

\* the entries of the log of one kind, in order
IoOf(ev) == SelectSeq(io, LAMBDA e : e.ev = ev)

\* the first transport read of each receive of the last call, in order
RecvHeads ==
    LET idx == {i \in 1..Len(io) : io[i].ev = "recv"}
        nth(k) == CHOOSE i \in idx : Cardinality({j \in idx : j < i}) = k - 1
    IN  [k \in 1..Cardinality(idx) |-> io[nth(k) + 1]]

\* a returned container is the one a log entry names
SameContainer(c, e) == c.kind = e.kind /\ c.code = e.code /\ c.tid = e.tid

ParamKinds == {PTP_CONTAINER_TYPE.COMMAND, PTP_CONTAINER_TYPE.EVENT}
KnownKinds == {PTP_CONTAINER_TYPE.COMMAND, PTP_CONTAINER_TYPE.DATA,
               PTP_CONTAINER_TYPE.RESPONSE, PTP_CONTAINER_TYPE.EVENT}

\* the last call ran to its end: it returned or raised one of the engine's errors
Ended == ret.exc \in {"none", "TypeError"}

----------------------------------------------------------------------------
(* Claims about the transaction engine *)

\* C1: the transaction id of the k-th Command sent on a camera handle is one
\* greater than the id of the Command before it, whether the calls succeeded
\* or failed; so no id is used by two commands.
C1_IdsIncreaseByOne ==
    \A k \in 2..Len(cmd_ids) : cmd_ids[k] = cmd_ids[k - 1] + 1

\* C1 witness: three commands have been sent and the last call failed
C1_Witness ==
    /\ Len(cmd_ids) = 3
    /\ call.op = "ptp_transaction"
    /\ ret.exc = "TypeError"

\* C2: with receiving true the first container received is classified by
\* kind: Data, Command and Event are returned as the inbound payload after a
\* second receive for the response; Response is returned as the response
\* with no second receive and payload None; any other kind fails the call.
\* With receiving false there is exactly one receive and the payload is None.
C2_PayloadClassified ==
    (call.op = "ptp_transaction" /\ Ended) =>
        LET heads == RecvHeads
            first == heads[1]
        IN  IF call.receiving
            THEN /\ first.kind \in {PTP_CONTAINER_TYPE.DATA} \cup ParamKinds =>
                       /\ Len(heads) = 2
                       /\ ret.exc = "none" => SameContainer(ret.val[2], first)
                 /\ first.kind = PTP_CONTAINER_TYPE.RESPONSE =>
                       /\ Len(heads) = 1
                       /\ ret.exc = "none"
                       /\ SameContainer(ret.val[1], first)
                       /\ ret.val[2] = None
                 /\ first.kind \notin KnownKinds =>
                       /\ Len(heads) = 1
                       /\ ret.exc = "TypeError"
                       /\ ret.msg = "Unknown PTP USB container type"
            ELSE /\ Len(heads) = 1
                 /\ ret.exc = "none" => ret.val[2] = None

\* C2 witness: a receiving call got Data first and returned it after a
\* second receive
C2_Witness ==
    /\ call.op = "ptp_transaction" /\ call.receiving /\ ret.exc = "none"
    /\ Len(RecvHeads) = 2
    /\ RecvHeads[1].kind = PTP_CONTAINER_TYPE.DATA
    /\ ret.val[2].kind = PTP_CONTAINER_TYPE.DATA

\* C3: when the payload phase captured no Response there is exactly one more
\* receive, and the call fails with the expected-response error when that
\* container is no Response; so a call that returns, returns a Response first.
C3_ResponseBackfilled ==
    (call.op = "ptp_transaction" /\ Ended) =>
        LET heads == RecvHeads
            last  == heads[Len(heads)]
            captured == call.receiving /\ heads[1].kind = PTP_CONTAINER_TYPE.RESPONSE
            unknown  == call.receiving /\ heads[1].kind \notin KnownKinds
        IN  /\ captured => Len(heads) = 1
            /\ (~captured /\ ~unknown) =>
                  /\ Len(heads) = (IF call.receiving THEN 2 ELSE 1)
                  /\ last.kind # PTP_CONTAINER_TYPE.RESPONSE =>
                        /\ ret.exc = "TypeError"
                        /\ ret.msg = "Expected response container"
                  /\ last.kind = PTP_CONTAINER_TYPE.RESPONSE =>
                        /\ ret.exc = "none"
                        /\ SameContainer(ret.val[1], last)
            /\ ret.exc = "none" => ret.val[1].kind = PTP_CONTAINER_TYPE.RESPONSE

\* C3 witness: a call failed in the response phase: the payload phase got an
\* Event, the second receive got something that is no Response
C3_Witness ==
    /\ call.op = "ptp_transaction" /\ call.receiving
    /\ ret.exc = "TypeError" /\ ret.msg = "Expected response container"
    /\ Len(RecvHeads) = 2
    /\ RecvHeads[1].kind = PTP_CONTAINER_TYPE.EVENT

\* C4: with an outbound payload the Command is sent first and then exactly
\* one Data container with the Command's transaction id and operation code;
\* without one no Data container is sent.  Every send comes before every
\* receive on bulk-in.
C4_SendsBeforeReceives ==
    call.op = "ptp_transaction" =>
        LET writes == IoOf("write")
            nw     == Len(writes)
        IN  /\ nw = (IF call.tx_data # -1 THEN 2 ELSE 1)
            /\ writes[1].kind = PTP_CONTAINER_TYPE.COMMAND
            /\ writes[1].code = call.command
            /\ call.tx_data # -1 =>
                  /\ writes[2].kind = PTP_CONTAINER_TYPE.DATA
                  /\ writes[2].tid = writes[1].tid
                  /\ writes[2].code = writes[1].code
                  /\ writes[2].n = HeaderSize + call.tx_data
            /\ \A i \in 1..Len(io) : io[i].ev = "write" <=> i <= nw
            /\ Len(io) > nw

\* C4 witness: a call with an outbound payload has sent both containers and
\* received its response
C4_Witness ==
    /\ call.op = "ptp_transaction" /\ call.tx_data = 8 /\ ret.exc = "none"
    /\ Len(IoOf("write")) = 2
    /\ Len(IoOf("read")) >= 1
    /\ IoOf("write")[2].tid > 0

\* C5 (as claimed): recv_ptp_message on a container declared longer than one
\* chunk, all of whose bytes the device has sent, returns a buffer as long as
\* the declared length, however the transport cuts the bytes into reads.
C5_BufferHasDeclaredLength ==
    (call.op = "recv_ptp_message" /\ ret.exc = "none" /\ ret.val[2].len > ChunkSize)
        => ret.val[2].n = ret.val[2].len

\* C9: check_event reads the interrupt endpoint exactly once and touches
\* neither bulk endpoint nor the transaction-id counter; it returns the
\* container read when that is an Event and fails when it is anything else.
C9_CheckEventFrame ==
    [][call'.op = "check_event" =>
          /\ transaction_id' = transaction_id
          /\ bulk_in' = bulk_in
          /\ cmd_ids' = cmd_ids
          /\ Len(io') = 1
          /\ io'[1].ev = "read" /\ io'[1].ep = "intr_in"
          /\ io'[1].kind = PTP_CONTAINER_TYPE.EVENT =>
                ret'.exc = "none" /\ SameContainer(ret'.val[2], io'[1])
          /\ io'[1].kind # PTP_CONTAINER_TYPE.EVENT => ret'.exc # "none"
      ]_vars

\* C9 witness: check_event returned an Event while commands had been sent
\* and a container was waiting on bulk-in
C9_Witness ==
    /\ call.op = "check_event" /\ ret.exc = "none"
    /\ ret.val[2].kind = PTP_CONTAINER_TYPE.EVENT
    /\ transaction_id > 0
    /\ bulk_in # <<>>

----------------------------------------------------------------------------
(* Claims about the session layer *)

\* the responses ptp_transaction returned during the last call, in order
Responses == IoOf("response")

\* the reads of the interrupt endpoint during the last call, in order
EventReads == SelectSeq(io, LAMBDA e : e.ev = "read" /\ e.ep = "intr_in")

\* C6: open_session sends one OpenSession command whose only parameter is the
\* session id; it succeeds when the response code is OK or
\* SessionAlreadyOpened and fails for every other response code.
C6_OpenSessionCodes ==
    call.op = "open_session" =>
        LET writes == IoOf("write") IN
        /\ Len(writes) = 1
        /\ writes[1].kind = PTP_CONTAINER_TYPE.COMMAND
        /\ writes[1].code = PTP_OPCODE.OPEN_SESSION
        /\ writes[1].n = HeaderSize + 4
        /\ writes[1].p0 = session_id
        /\ Len(Responses) = 1 =>
              IF Responses[1].code \in {PTP_RESPONSE_CODE.OK,
                                        PTP_RESPONSE_CODE.SESSION_ALREADY_OPENED}
              THEN ret.exc = "none" /\ ret.val = TRUE
              ELSE ret.exc = "ValueError"

\* C6 witness: open_session succeeded on SessionAlreadyOpened
C6_Witness ==
    /\ call.op = "open_session" /\ ret.exc = "none"
    /\ Len(Responses) = 1
    /\ Responses[1].code = PTP_RESPONSE_CODE.SESSION_ALREADY_OPENED

\* the two events capture has read hold both classes
BothClasses(reads) ==
    /\ \E i \in 1..2 : reads[i].code = PTP_EVENT_CODE.OBJECT_ADDED
    /\ \E i \in 1..2 : reads[i].code = PTP_EVENT_CODE.CAPTURE_COMPLETE

\* C7: when capture has read its two events it returns parameter 0 of the
\* ObjectAdded event, in whichever order ObjectAdded and CaptureComplete
\* came, and it fails when the two events do not hold both classes.
C7_CaptureOrderIndependent ==
    (call.op = "capture" /\ Len(EventReads) = 2
        /\ EventReads[2].kind = PTP_CONTAINER_TYPE.EVENT) =>
        LET reads == EventReads IN
        IF BothClasses(reads)
        THEN /\ ret.exc = "none"
             /\ \E i \in 1..2 : /\ reads[i].code = PTP_EVENT_CODE.OBJECT_ADDED
                                /\ ret.val = reads[i].p0
        ELSE ret.exc = "IOError"

\* C7 witness: CaptureComplete came first, ObjectAdded second, and capture
\* returned the handle
C7_Witness ==
    /\ call.op = "capture" /\ ret.exc = "none" /\ ret.val = 9
    /\ Len(EventReads) = 2
    /\ EventReads[1].code = PTP_EVENT_CODE.CAPTURE_COMPLETE
    /\ EventReads[2].code = PTP_EVENT_CODE.OBJECT_ADDED

\* the InitiateCapture exchange of the last call returned an OK response
InitiateOk ==
    /\ Len(Responses) = 2
    /\ Responses[2].code = PTP_RESPONSE_CODE.OK

\* the InitiateCapture exchange of the last call returned another response
InitiateNotOk ==
    /\ Len(Responses) = 2
    /\ Responses[2].code # PTP_RESPONSE_CODE.OK

\* every read of the interrupt endpoint comes after the OK response to
\* InitiateCapture
EventsAfterInitiate ==
    \A i \in 1..Len(io) :
        (io[i].ev = "read" /\ io[i].ep = "intr_in") =>
            \E j \in 1..(i - 1) :
                /\ io[j].ev = "response" /\ io[j].code = PTP_RESPONSE_CODE.OK
                /\ \E k \in 1..(j - 1) :
                      /\ io[k].ev = "write"
                      /\ io[k].code = PTP_OPCODE.INITIATE_CAPTURE

\* C8 (as claimed): capture reads no event before the InitiateCapture
\* exchange returned OK, fails with no event read when that response is not
\* OK, and in every run where that response is OK makes exactly two event
\* reads.
C8_Claimed ==
    call.op = "capture" =>
        /\ EventsAfterInitiate
        /\ InitiateNotOk => (ret.exc # "none" /\ Len(EventReads) = 0)
        /\ InitiateOk => Len(EventReads) = 2

\* C8 (amended): capture reads no event before the InitiateCapture exchange
\* returned OK and fails with no event read when that response is not OK or
\* never came; after an OK response it reads a second event exactly when the
\* first read returned an Event container, and never a third.
C8_TwoEventReads ==
    call.op = "capture" =>
        /\ EventsAfterInitiate
        /\ ~InitiateOk => (ret.exc # "none" /\ Len(EventReads) = 0)
        /\ InitiateOk =>
              /\ Len(EventReads) \in {1, 2}
              /\ Len(EventReads) = 2 <=> EventReads[1].kind = PTP_CONTAINER_TYPE.EVENT
              /\ Len(EventReads) = 1 => ret.exc \in {"ValueError", "USBError"}

\* C8 witness: after an OK response capture read two events of codes it does
\* not look for, and failed
C8_Witness ==
    /\ call.op = "capture" /\ InitiateOk
    /\ Len(EventReads) = 2
    /\ EventReads[1].code = PTP_EVENT_CODE.DEVICE_PROP_CHANGED
    /\ EventReads[2].code = PTP_EVENT_CODE.DEVICE_PROP_CHANGED
    /\ ret.exc = "IOError"

----------------------------------------------------------------------------
(* Claims about the script-wait loop *)

\* the status has MESSAGE_PENDING set and RUNNING clear
MessageOnly(status) ==
    BitSet(status, CHDKScriptStatus.MSG) /\ ~BitSet(status, CHDKScriptStatus.RUN)

\* the ReadScriptMsg commands sent during the last call
ReadScriptMsgSent ==
    SelectSeq(io, LAMBDA e : /\ e.ev = "write"
                             /\ e.kind = PTP_CONTAINER_TYPE.COMMAND
                             /\ e.p0 = CHDKOperations.ReadScriptMsg)

\* the Data containers read from bulk-in during the last call
DataRead ==
    SelectSeq(io, LAMBDA e : /\ e.ev = "read"
                             /\ e.kind = PTP_CONTAINER_TYPE.DATA)

\* C10: in the script-wait loop run with no deadline, while every status
\* polled is 0 or has RUNNING or MESSAGE_PENDING set, there is exactly one
\* read_script_message per status polled with MESSAGE_PENDING and without
\* RUNNING, the messages are kept in the order read, and the loop goes on
\* until the first status 0, where it returns the messages and polls no more.
C10_OneMessagePerPendingStatus ==
    (call.op = "execute_lua" /\ call.block /\ ret.exc \in {"waiting", "none"}
        /\ wait.timeout = 0
        /\ \A i \in 1..Len(wait.polled) :
              \/ wait.polled[i] = 0
              \/ BitSet(wait.polled[i], CHDKScriptStatus.RUN)
              \/ BitSet(wait.polled[i], CHDKScriptStatus.MSG)) =>
        LET polled  == wait.polled
            pending == {i \in 1..Len(polled) : MessageOnly(polled[i])}
        IN  /\ Len(ReadScriptMsgSent) = Cardinality(pending)
            /\ Len(wait.msgs) = Cardinality(pending)
            /\ Len(DataRead) = Cardinality(pending)
            /\ \A k \in 1..Len(wait.msgs) : wait.msgs[k][2].data = DataRead[k].data
            /\ \A i \in 1..(Len(polled) - 1) : polled[i] # 0
            /\ IF polled # <<>> /\ polled[Len(polled)] = 0
               THEN ~wait.active /\ ret.exc = "none" /\ ret.val[3] = wait.msgs
               ELSE wait.active /\ ret.exc = "waiting"

\* C10 witness: the statuses RUNNING, MESSAGE_PENDING, MESSAGE_PENDING, 0
\* were polled and the loop returned two messages, in the order read
C10_Witness ==
    /\ call.op = "execute_lua" /\ call.block /\ ret.exc = "none"
    /\ wait.polled = <<1, 2, 2, 0>>
    /\ Len(ret.val[3]) = 2
    /\ ret.val[3][1][2].data = 1
    /\ ret.val[3][2][2].data = 2

----------------------------------------------------------------------------
(* Claims about the statuses and the deadline of the script-wait loop *)

\* a wait loop is the last call
InWait == call.op \in {"execute_lua", "_wait_for_script_return"} /\ call.block

\* the status the loop polled last
LastPolled == wait.polled[Len(wait.polled)]

\* the sleeps of the last call
Sleeps == IoOf("sleep")

\* the statuses polled so far that have RUNNING set
RunPolls == {i \in 1..Len(wait.polled) : BitSet(wait.polled[i], CHDKScriptStatus.RUN)}

\* the statuses polled so far that have MESSAGE_PENDING set and RUNNING clear
MsgPolls == {i \in 1..Len(wait.polled) : MessageOnly(wait.polled[i])}

\* C11 as claimed: every polled status other than 0, RUNNING and
\* MESSAGE_PENDING, a recognized bit combined with another bit included,
\* makes the loop fail with the status error carrying the raw value.
C11_Claimed ==
    (InWait /\ wait.polled # <<>> /\ LastPolled \notin {0, 1, 2}) =>
        /\ ret.exc = "PTPError"
        /\ ret.msg = InvalidStatusMessage(LastPolled)

\* C11: a polled status that is not 0 and has neither RUNNING nor
\* MESSAGE_PENDING set makes the loop fail with the status error carrying
\* the raw value, with no sleep and no message read for that status; a
\* status with RUNNING set is slept on and a status with MESSAGE_PENDING
\* and without RUNNING has its message read, whatever other bits are set,
\* and neither raises the status error.
C11_UnrecognizedStatusFails ==
    (InWait /\ wait.polled # <<>>) =>
        /\ Len(Sleeps) = Cardinality(RunPolls)
        /\ Len(ReadScriptMsgSent) = Cardinality(MsgPolls)
        /\ IF /\ LastPolled # 0
              /\ ~BitSet(LastPolled, CHDKScriptStatus.RUN)
              /\ ~BitSet(LastPolled, CHDKScriptStatus.MSG)
           THEN /\ ret.exc = "PTPError"
                /\ ret.msg = InvalidStatusMessage(LastPolled)
                /\ ~wait.active
                /\ io[Len(io)].ev = "response"
           ELSE ret.msg # InvalidStatusMessage(LastPolled)

\* C11 witness: after RUNNING and MESSAGE_PENDING the device reports 4 and
\* the loop fails with the status error for 0x4, having slept once and read
\* one message
C11_Witness ==
    /\ InWait
    /\ wait.polled = <<1, 2, 4>>
    /\ ret.exc = "PTPError"
    /\ ret.msg = "Invalid response for script status: 0x4"
    /\ Len(Sleeps) = 1
    /\ Len(ReadScriptMsgSent) = 1

\* the last call failed with the timeout error of line 521
TimedOut ==
    ret.exc = "PTPError" /\ ret.msg = "Timeout waiting for script to return"

\* C12 as claimed: with a deadline and a RUNNING script the loop fails with
\* the timeout error once the time since the wait began has passed the
\* deadline, never while that time is below the deadline, and never when
\* no deadline is configured.
C12_TimeoutAtDeadline ==
    (InWait /\ wait.polled # <<>>) =>
        /\ TimedOut => (wait.timeout > 0 /\ wait.elapsed >= wait.timeout)
        /\ (/\ wait.timeout > 0
            /\ LastPolled = CHDKScriptStatus.RUN
            /\ wait.elapsed > wait.timeout) => TimedOut

----------------------------------------------------------------------------
(* Claims about file transfer and live view *)

\* the Command containers sent during the last call, in order
Commands ==
    SelectSeq(io, LAMBDA e : e.ev = "write" /\ e.kind = PTP_CONTAINER_TYPE.COMMAND)

\* the Data containers sent during the last call, in order
DataSent ==
    SelectSeq(io, LAMBDA e : e.ev = "write" /\ e.kind = PTP_CONTAINER_TYPE.DATA)

\* the status the device gives in its k-th answer of the last call: the
\* first parameter of the answer's response, -1 when it has none
StatusOf(k) ==
    LET reply == call.replies[k]
        response == reply[Len(reply)]
    IN  IF response.params = <<>> THEN -1 ELSE response.params[1]

\* the device's k-th answer of the last call holds a Data container
HasData(k) ==
    \E i \in 1..Len(call.replies[k]) :
        call.replies[k][i].kind = PTP_CONTAINER_TYPE.DATA

\* the command is TempData with the selector
IsTempData(c, selector) ==
    /\ c.code = PTP_OC_CHDK
    /\ c.p0 = CHDKOperations.TempData
    /\ c.p1 = selector

\* C13: when the response to the TempData store step of download_file
\* carries a status that is not OK, the call fails with the device error
\* that carries that status, and the store is the only transaction: no
\* DownloadFile and no TempData clear command is sent.
C13_StoreFailureStops ==
    (call.op = "download_file" /\ StatusOf(1) \notin {-1, CHDKResponses.OK}) =>
        /\ ret.exc = "PTPError"
        /\ ret.val = StatusOf(1)
        /\ ret.msg = CHDKResponsesMessage[StatusOf(1)]
        /\ Len(Commands) = 1
        /\ IsTempData(Commands[1], 0)
        /\ Len(Responses) = 1

\* C13 witness: the store step answered GENERAL_ERROR and download_file
\* raised the device error for it after one command
C13_Witness ==
    /\ call.op = "download_file"
    /\ StatusOf(1) = CHDKResponses.GENERAL_ERROR
    /\ ret.exc = "PTPError"
    /\ ret.val = CHDKResponses.GENERAL_ERROR
    /\ Len(Commands) = 1

\* C14 as claimed: when the store step of download_file succeeds and the
\* response to DownloadFile carries a status that is not OK, download_file
\* fails with the device error for that status and returns no bytes.
C14_FetchFailureFails ==
    (/\ call.op = "download_file"
     /\ StatusOf(1) = CHDKResponses.OK
     /\ StatusOf(2) \notin {-1, CHDKResponses.OK}) =>
        /\ ret.exc = "PTPError"
        /\ ret.val = StatusOf(2)

\* C15: a download_file whose store, fetch and clear steps all answer OK
\* sends exactly three commands, TempData with the path as payload,
\* DownloadFile and TempData clear, in that order and with consecutive
\* transaction ids, and returns the bytes of the Data container received in
\* the DownloadFile step.
C15_DownloadSequence ==
    (/\ call.op = "download_file"
     /\ \A k \in 1..3 : StatusOf(k) = CHDKResponses.OK
     /\ HasData(2)) =>
        /\ ret.exc = "none"
        /\ Len(Commands) = 3
        /\ IsTempData(Commands[1], 0)
        /\ Commands[2].code = PTP_OC_CHDK
        /\ Commands[2].p0 = CHDKOperations.DownloadFile
        /\ IsTempData(Commands[3], CHDKTempData.CLEAR)
        /\ Commands[2].tid = Commands[1].tid + 1
        /\ Commands[3].tid = Commands[2].tid + 1
        /\ Len(DataSent) = 1
        /\ DataSent[1].tid = Commands[1].tid
        /\ DataSent[1].n = HeaderSize + call.tx_data
        /\ Len(Responses) = 3
        /\ Len(DataRead) = 1
        /\ DataRead[1].tid = Commands[2].tid
        /\ ret.val = [data |-> DataRead[1].data, n |-> DataRead[1].n - HeaderSize]

\* C15 witness: download_file returned the 20 bytes of the file after three
\* transactions
C15_Witness ==
    /\ call.op = "download_file"
    /\ ret.exc = "none"
    /\ \A k \in 1..3 : StatusOf(k) = CHDKResponses.OK
    /\ Len(Commands) = 3
    /\ ret.val = [data |-> FileData.data, n |-> 20]

\* C16 as claimed: when the TempData clear step of download_file answers
\* with a status that is not OK, the failure is reported to the caller.
C16_ClearFailureReported ==
    (/\ call.op = "download_file"
     /\ StatusOf(1) = CHDKResponses.OK
     /\ StatusOf(2) = CHDKResponses.OK
     /\ StatusOf(3) # CHDKResponses.OK) =>
        ret.exc # "none"

\* C17 as claimed: upload_file sends exactly one UploadFile command with
\* the packed file as its Data payload; it returns without error when the
\* status of the response is OK and fails with the device error carrying
\* the status when it is not.
C17_UploadOutcome ==
    call.op = "upload_file" =>
        /\ Len(Commands) = 1
        /\ Commands[1].code = PTP_OC_CHDK
        /\ Commands[1].p0 = CHDKOperations.UploadFile
        /\ Len(DataSent) = 1
        /\ IF StatusOf(1) = CHDKResponses.OK
           THEN ret.exc = "none"
           ELSE ret.exc = "PTPError" /\ ret.val = StatusOf(1)

\* C18 as claimed: get_live_view_data returns a parsed frame when the
\* inbound payload of its GetDisplayData transaction is a Data container
\* and None as the frame in every other case, the case of a Response
\* answered directly with no inbound payload included.
C18_FrameOrNone ==
    call.op = "get_live_view_data" =>
        /\ ret.exc = "none"
        /\ IF HasData(1)
           THEN ret.val[2] = [frame |-> TRUE, data |-> DataRead[1].data,
                              n |-> DataRead[1].n - HeaderSize]
           ELSE ret.val[2] = NoFrame

----------------------------------------------------------------------------
(* Claims about transaction ids across calls *)

\* the transaction id of the Command the last call sent
LastCommandId == cmd_ids[Len(cmd_ids)]

\* C19 as claimed: every ptp_transaction that returns normally, after any
\* earlier calls, returns a Response (and an inbound payload, if any) with
\* the transaction id of the Command sent in that same call; a container an
\* earlier call left unread on bulk-in is never returned by a later call.
C19_ResultCarriesCallId ==
    (call.op = "ptp_transaction" /\ ret.exc = "none") =>
        /\ ret.val[1].tid = LastCommandId
        /\ ret.val[2] # None => ret.val[2].tid = LastCommandId

----------------------------------------------------------------------------
(* Claims about the termination of the script-wait loop *)

\* execute_lua(block=True) is the last call
Blocking == call.op = "execute_lua" /\ call.block

\* every status polled so far was RUNNING, and there was one
AllRunning ==
    /\ wait.polled # <<>>
    /\ \A i \in 1..Len(wait.polled) : wait.polled[i] = CHDKScriptStatus.RUN

\* C20: the wait loop that execute_lua(block=True) starts returns in the
\* end when the device reports status 0 after finitely many RUNNING and
\* MESSAGE_PENDING statuses; and, with no deadline configured, for as long
\* as the device has reported nothing but RUNNING the loop has neither
\* returned nor raised.
C20_WaitReturns ==
    /\ (Blocking /\ wait.active) ~> (Blocking /\ ~wait.active /\ ret.exc = "none")
    /\ [](Blocking /\ wait.timeout = 0 /\ AllRunning =>
              wait.active /\ ret.exc = "waiting")

\* C20 witness: execute_lua(block=True) returned after the statuses RUNNING,
\* MESSAGE_PENDING, RUNNING, 0 with the one message read
C20_Witness ==
    /\ Blocking
    /\ wait.polled = <<1, 2, 1, 0>>
    /\ ~wait.active
    /\ ret.exc = "none"
    /\ Len(ret.val[3]) = 1
    /\ Len(Sleeps) = 2

====
